---- MODULE Spec2Model ----
(***************************************************************************)
(* The breakout rooms store of the Talk web client (pinia store            *)
(* 'breakoutRooms') together with the REST service it calls.               *)
(*                                                                         *)
(* Every store action is an async function: it issues one request,         *)
(* suspends, and continues in its try branch when the request succeeds or  *)
(* in its catch branch when it fails.  Each continuation runs to the next  *)
(* await without interruption (single-threaded event loop), so each is one *)
(* action of this model.  Several invocations may be suspended at the same *)
(* time; their responses arrive in any order.                              *)
(***************************************************************************)
EXTENDS Integers, Sequences, FiniteSets, TLC

VARIABLES
    rooms,          \* state.rooms: parent token -> (room token -> BreakoutRoom)
    conversations,  \* the general conversation store: token -> Conversation
    calls,          \* the invocations of store actions, in the order they were made
    out,            \* what the last continuation dispatched / emitted, in order
    last            \* the invocation whose continuation ran last (0: none did)

vars == <<rooms, conversations, calls, out, last>>

----------------------------------------------------------------------------
(* Bounds of the model *)

\* the number of store action invocations in one behaviour
MaxCalls == 2
\* the number of distinct contents the server can give one conversation
MaxVer == 2
\* the length of a participants response
MaxParticipants == 3

----------------------------------------------------------------------------
(* Tokens and conversations *)

ParentTokens == {"T1", "T2"}
RoomOrder == <<"R1", "R2", "R3">>
RoomTokens == {RoomOrder[k] : k \in DOMAIN RoomOrder}
Tokens == ParentTokens \cup RoomTokens

\* the parent conversation each breakout room belongs to on the server
ParentOf == [r \in RoomTokens |-> IF r = "R3" THEN "T2" ELSE "T1"]
RoomsOf(t) == {r \in RoomTokens : ParentOf[r] = t}

\* CONVERSATION.OBJECT_TYPE.BREAKOUT_ROOM
BREAKOUT_ROOM == "room"

Versions == 1..MaxVer

ParentConversation(t, v) ==
    [token |-> t, objectType |-> "", objectId |-> "", ver |-> v]
BreakoutRoom(r, v) ==
    [token |-> r, objectType |-> BREAKOUT_ROOM, objectId |-> ParentOf[r], ver |-> v]
NoConversation ==
    [token |-> "", objectType |-> "", objectId |-> "", ver |-> 0]

----------------------------------------------------------------------------
(* response.data.ocs.data of the service calls *)

NoData == [kind |-> "none", items |-> <<>>, item |-> NoConversation]
ArrayData(s) == [kind |-> "array", items |-> s, item |-> NoConversation]
SingleData(c) == [kind |-> "single", items |-> <<>>, item |-> c]

RECURSIVE RoomsArray(_, _, _)
RoomsArray(S, v, k) ==
    IF k > Len(RoomOrder) THEN <<>>
    ELSE (IF RoomOrder[k] \in S THEN <<BreakoutRoom(RoomOrder[k], v)>> ELSE <<>>)
         \o RoomsArray(S, v, k + 1)

\* configure, reorganize, get, start, stop: the parent and its breakout rooms
ListResponses(t) ==
    {ArrayData(<<ParentConversation(t, v)>> \o RoomsArray(S, v, 1)) :
        S \in SUBSET RoomsOf(t), v \in Versions}
\* delete: the parent conversation
ParentResponses(t) == {SingleData(ParentConversation(t, v)) : v \in Versions}
\* switch, request-assistance: one breakout room
RoomResponses(r) == {SingleData(BreakoutRoom(r, v)) : v \in Versions}

----------------------------------------------------------------------------
(* Vue.set / Vue.delete on a plain object *)

EmptyObject == <<>>
VueSet(obj, k, v) ==
    [x \in (DOMAIN obj) \cup {k} |-> IF x = k THEN v ELSE obj[x]]
VueDelete(obj, k) == [x \in (DOMAIN obj) \ {k} |-> obj[x]]

----------------------------------------------------------------------------
(* The two stores while a continuation runs: st.rooms, st.conversations and *)
(* st.out, the dispatches made so far.                                      *)

Store == [rooms |-> rooms, conversations |-> conversations, out |-> <<>>]

Event(type, token, items) == [type |-> type, token |-> token, items |-> items]

RECURSIVE PatchAll(_, _)
PatchAll(cs, s) ==
    IF s = <<>> THEN cs
    ELSE PatchAll(VueSet(cs, Head(s).token, Head(s)), Tail(s))

\* store.dispatch('patchConversations', { conversations })
patchConversations(st, s) ==
    [st EXCEPT !.conversations = PatchAll(@, s),
               !.out = Append(@, Event("patchConversations", "", s))]

\* store.dispatch('deleteConversation', roomToken)
deleteConversation(st, roomToken) ==
    [st EXCEPT !.conversations = VueDelete(@, roomToken),
               !.out = Append(@, Event("deleteConversation", roomToken, <<>>))]

\* store.dispatch('patchParticipants', { token, newParticipants, hasUserStatuses })
patchParticipants(st, token, newParticipants) ==
    [st EXCEPT !.out = Append(@, Event("patchParticipants", token, newParticipants))]

\* store.dispatch('showSidebar')
showSidebar(st) == [st EXCEPT !.out = Append(@, Event("showSidebar", "", <<>>))]

\* emit('spreed:select-active-sidebar-tab', 'breakout-rooms')
emit(st, name, arg) == [st EXCEPT !.out = Append(@, Event(name, arg, <<>>))]

----------------------------------------------------------------------------
(* Getters *)

breakoutRooms(token) ==
    IF token \in DOMAIN rooms
    THEN {rooms[token][k] : k \in DOMAIN rooms[token]}
    ELSE {}

HasParent(token) == \E p \in DOMAIN rooms : token \in DOMAIN rooms[p]
getParentRoomToken(token) ==
    IF HasParent(token)
    THEN CHOOSE p \in DOMAIN rooms : token \in DOMAIN rooms[p]
    ELSE "undefined"

----------------------------------------------------------------------------
(* Synchronous store actions *)

\* mutant: the parent's mapping is replaced by the one room instead of extended
addBreakoutRoom_replacing(st, token, breakoutRoom) ==
    [st EXCEPT !.rooms =
        VueSet(st.rooms, token, VueSet(EmptyObject, breakoutRoom.token, breakoutRoom))]

\* mutant: a room that is already stored is not overwritten
addBreakoutRoom_keepingFirst(st, token, breakoutRoom) ==
    LET r0 == IF token \notin DOMAIN st.rooms
              THEN VueSet(st.rooms, token, EmptyObject)
              ELSE st.rooms
    IN IF breakoutRoom.token \in DOMAIN r0[token] THEN st
       ELSE [st EXCEPT !.rooms =
                VueSet(r0, token, VueSet(r0[token], breakoutRoom.token, breakoutRoom))]

addBreakoutRoom(st, token, breakoutRoom) ==
    LET r0 == IF token \notin DOMAIN st.rooms
              THEN VueSet(st.rooms, token, EmptyObject)
              ELSE st.rooms
    IN [st EXCEPT !.rooms =
            VueSet(r0, token, VueSet(r0[token], breakoutRoom.token, breakoutRoom))]

RECURSIVE forEachConversation(_, _, _), forEachConversation_unfiltered(_, _, _)
\* mutant: no filter on the object type
forEachConversation_unfiltered(st, token, s) ==
    IF s = <<>> THEN st
    ELSE forEachConversation_unfiltered(addBreakoutRoom(st, token, Head(s)), token, Tail(s))

forEachConversation(st, token, s) ==
    IF s = <<>> THEN st
    ELSE forEachConversation(
            IF Head(s).objectType = BREAKOUT_ROOM
            THEN addBreakoutRoom(st, token, Head(s))
            ELSE st,
            token, Tail(s))

\* mutant: the parent's mapping is dropped before the response is merged
processConversations_rebuilding(st, token, data) ==
    LET conversations_ == IF data.kind = "array" THEN data.items ELSE <<data.item>>
    IN patchConversations(
            forEachConversation([st EXCEPT !.rooms = VueDelete(@, token)],
                                token, conversations_),
            conversations_)

processConversations(st, token, data) ==
    LET conversations_ == IF data.kind = "array" THEN data.items ELSE <<data.item>>
    IN patchConversations(forEachConversation(st, token, conversations_), conversations_)

RECURSIVE forInRooms(_, _, _)
forInRooms(st, keys, k) ==
    IF k > Len(RoomOrder) THEN st
    ELSE forInRooms(
            IF RoomOrder[k] \in keys THEN deleteConversation(st, RoomOrder[k]) ELSE st,
            keys, k + 1)

\* mutant: the whole rooms object is reset
purgeBreakoutRoomsStore_everyParent(st, token) ==
    LET keys == IF token \in DOMAIN st.rooms THEN DOMAIN st.rooms[token] ELSE {}
        st1 == forInRooms(st, keys, 1)
    IN [st1 EXCEPT !.rooms = EmptyObject]

\* mutant: the conversations are deleted but the parent's mapping is kept
purgeBreakoutRoomsStore_keepingRooms(st, token) ==
    LET keys == IF token \in DOMAIN st.rooms THEN DOMAIN st.rooms[token] ELSE {}
    IN forInRooms(st, keys, 1)

\* mutant: the parent's mapping is emptied instead of deleted
purgeBreakoutRoomsStore_emptying(st, token) ==
    LET keys == IF token \in DOMAIN st.rooms THEN DOMAIN st.rooms[token] ELSE {}
        st1 == forInRooms(st, keys, 1)
    IN [st1 EXCEPT !.rooms = IF token \in DOMAIN @ THEN VueSet(@, token, EmptyObject) ELSE @]

\* mutant: the rooms are dropped from this store only
purgeBreakoutRoomsStore_keepingConversations(st, token) ==
    [st EXCEPT !.rooms = VueDelete(@, token)]

purgeBreakoutRoomsStore(st, token) ==
    LET keys == IF token \in DOMAIN st.rooms THEN DOMAIN st.rooms[token] ELSE {}
        st1 == forInRooms(st, keys, 1)
    IN [st1 EXCEPT !.rooms = VueDelete(@, token)]

Commit(st) ==
    /\ rooms' = st.rooms
    /\ conversations' = st.conversations
    /\ out' = st.out

----------------------------------------------------------------------------
(* Invocations *)

ListOps == {"configureBreakoutRooms", "reorganizeAttendees", "getBreakoutRooms",
            "startBreakoutRooms", "stopBreakoutRooms"}
ParentOps == ListOps \cup {"deleteBreakoutRooms", "broadcastMessageToBreakoutRooms",
                           "fetchBreakoutRoomsParticipants", "switchToBreakoutRoom"}
RoomOps == {"requestAssistance", "dismissRequestAssistance"}
Ops == ParentOps \cup RoomOps

StoredUnder(token) == IF token \in DOMAIN rooms THEN DOMAIN rooms[token] ELSE {}

NewCall(op, token, target) ==
    [op |-> op, token |-> token, target |-> target,
     \* the room tokens under `token` when deleteBreakoutRooms was invoked
     before |-> IF op = "deleteBreakoutRooms" THEN StoredUnder(token) ELSE {},
     pc |-> "request",       \* request | participants | resolved | rejected
     result |-> "pending",   \* of the action's own request: pending | ok | failed
     data |-> NoData,        \* response.data.ocs.data of the action's own request
     arrived |-> 0,          \* the position of that response among all responses
     reqs |-> 1,             \* requests issued by this invocation
     nested |-> "none",      \* of the nested participants request: none | pending | ok | failed
     errors |-> 0,           \* console.error calls
     toast |-> ""]           \* the showError message

Arrivals == Cardinality({j \in DOMAIN calls : calls[j].arrived > 0})

Awaiting(i, op) ==
    /\ i \in DOMAIN calls
    /\ calls[i].op = op
    /\ calls[i].pc = "request"

\* the caller invokes a store action: it runs to its first await, the request is out
Invoke(op, token, target) ==
    /\ Len(calls) < MaxCalls
    /\ \/ op \in ParentOps \ {"switchToBreakoutRoom"} /\ token \in ParentTokens /\ target = ""
       \/ op = "switchToBreakoutRoom" /\ token \in ParentTokens /\ target \in RoomTokens
       \/ op \in RoomOps /\ token \in RoomTokens /\ target = ""
    /\ calls' = Append(calls, NewCall(op, token, target))
    /\ out' = <<>>
    /\ last' = 0
    /\ UNCHANGED <<rooms, conversations>>

Received(c, result, data) ==
    [c EXCEPT !.result = result, !.data = data, !.arrived = Arrivals + 1]

console_error(c) == [c EXCEPT !.errors = @ + 1]
showError(c, message) == [c EXCEPT !.toast = message]
Settle(c) == [c EXCEPT !.pc = "resolved"]

\* the continuation changes neither store and dispatches nothing
NoDispatch ==
    /\ out' = <<>>
    /\ UNCHANGED <<rooms, conversations>>

----------------------------------------------------------------------------
(* fetchBreakoutRoomsParticipants: the participants response and its split *)

Participant(r, k) == [roomToken |-> r, attendeeId |-> k]

ParticipantResponses(t) ==
    UNION {{[k \in 1..n |-> Participant(f[k], k)] : f \in [1..n -> RoomsOf(t)]} :
            n \in 0..MaxParticipants}

RECURSIVE reduceParticipants(_, _), reduceParticipants_restarting(_, _)
\* mutant: a room's list is started again whenever the room token changes
reduceParticipants_restarting(acc, s) ==
    IF s = <<>> THEN acc
    ELSE LET participant == Head(s)
             a1 == IF \/ participant.roomToken \notin DOMAIN acc.lists
                      \/ acc.keys[Len(acc.keys)] # participant.roomToken
                   THEN [keys |-> IF participant.roomToken \in DOMAIN acc.lists
                                  THEN acc.keys
                                  ELSE Append(acc.keys, participant.roomToken),
                         lists |-> VueSet(acc.lists, participant.roomToken, <<>>)]
                   ELSE acc
             a2 == [a1 EXCEPT !.lists[participant.roomToken] = Append(@, participant)]
         IN reduceParticipants_restarting(a2, Tail(s))

\* the reduce of lines 255-261: acc.keys is the insertion order of acc's keys
reduceParticipants(acc, s) ==
    IF s = <<>> THEN acc
    ELSE LET participant == Head(s)
             a1 == IF participant.roomToken \notin DOMAIN acc.lists
                   THEN [keys |-> Append(acc.keys, participant.roomToken),
                         lists |-> VueSet(acc.lists, participant.roomToken, <<>>)]
                   ELSE acc
             a2 == [a1 EXCEPT !.lists[participant.roomToken] = Append(@, participant)]
         IN reduceParticipants(a2, Tail(s))

RECURSIVE forEachEntry(_, _, _)
forEachEntry(st, acc, k) ==
    IF k > Len(acc.keys) THEN st
    ELSE forEachEntry(patchParticipants(st, acc.keys[k], acc.lists[acc.keys[k]]),
                      acc, k + 1)

\* lines 254-265, after the await
splitParticipants(st, data) ==
    forEachEntry(st, reduceParticipants([keys |-> <<>>, lists |-> EmptyObject], data), 1)

\* lines 139-141
openSidebar(st) ==
    showSidebar(emit(st, "spreed:select-active-sidebar-tab", "breakout-rooms"))

AwaitingParticipants(i, op) ==
    /\ i \in DOMAIN calls
    /\ calls[i].op = op
    /\ calls[i].pc = "participants"

\* `await this.fetchBreakoutRoomsParticipants(token)`: the nested request is out
CallFetchParticipants(c) ==
    [c EXCEPT !.pc = "participants", !.nested = "pending", !.reqs = @ + 1]

----------------------------------------------------------------------------
(* configureBreakoutRooms *)

configureBreakoutRooms_then(i) ==
    /\ Awaiting(i, "configureBreakoutRooms")
    /\ last' = i
    /\ \E data \in ListResponses(calls[i].token) :
        /\ Commit(processConversations(Store, calls[i].token, data))
        /\ calls' = [calls EXCEPT ![i] = CallFetchParticipants(Received(@, "ok", data))]

configureBreakoutRooms_participants_then(i) ==
    /\ AwaitingParticipants(i, "configureBreakoutRooms")
    /\ last' = i
    /\ \E data \in ParticipantResponses(calls[i].token) :
        Commit(openSidebar(splitParticipants(Store, data)))
    /\ calls' = [calls EXCEPT ![i] = Settle([@ EXCEPT !.nested = "ok"])]

\* mutant: a failure of the nested participants request reaches the outer catch
configureBreakoutRooms_participants_catch_propagating(i) ==
    /\ AwaitingParticipants(i, "configureBreakoutRooms")
    /\ last' = i
    /\ calls' = [calls EXCEPT ![i] =
            Settle(showError(console_error([@ EXCEPT !.nested = "failed"]),
                             "An error occurred while creating breakout rooms"))]
    /\ NoDispatch

configureBreakoutRooms_participants_catch(i) ==
    /\ AwaitingParticipants(i, "configureBreakoutRooms")
    /\ last' = i
    /\ Commit(openSidebar(Store))
    /\ calls' = [calls EXCEPT ![i] = Settle(console_error([@ EXCEPT !.nested = "failed"]))]

configureBreakoutRooms_catch(i) ==
    /\ Awaiting(i, "configureBreakoutRooms")
    /\ last' = i
    /\ calls' = [calls EXCEPT ![i] =
            Settle(showError(console_error(Received(@, "failed", NoData)),
                             "An error occurred while creating breakout rooms"))]
    /\ NoDispatch

----------------------------------------------------------------------------
(* reorganizeAttendees *)

reorganizeAttendees_then(i) ==
    /\ Awaiting(i, "reorganizeAttendees")
    /\ last' = i
    /\ \E data \in ListResponses(calls[i].token) :
        /\ Commit(processConversations(Store, calls[i].token, data))
        /\ calls' = [calls EXCEPT ![i] = CallFetchParticipants(Received(@, "ok", data))]

reorganizeAttendees_participants_then(i) ==
    /\ AwaitingParticipants(i, "reorganizeAttendees")
    /\ last' = i
    /\ \E data \in ParticipantResponses(calls[i].token) :
        Commit(splitParticipants(Store, data))
    /\ calls' = [calls EXCEPT ![i] = Settle([@ EXCEPT !.nested = "ok"])]

reorganizeAttendees_participants_catch(i) ==
    /\ AwaitingParticipants(i, "reorganizeAttendees")
    /\ last' = i
    /\ calls' = [calls EXCEPT ![i] = Settle(console_error([@ EXCEPT !.nested = "failed"]))]
    /\ NoDispatch

reorganizeAttendees_catch(i) ==
    /\ Awaiting(i, "reorganizeAttendees")
    /\ last' = i
    /\ calls' = [calls EXCEPT ![i] =
            Settle(showError(console_error(Received(@, "failed", NoData)),
                             "An error occurred while re-ordering the attendees"))]
    /\ NoDispatch

----------------------------------------------------------------------------
(* deleteBreakoutRooms *)

\* mutant: the purge runs before the response is processed
deleteBreakoutRooms_try_purgingFirst(st, token, data) ==
    processConversations(purgeBreakoutRoomsStore(st, token), token, data)

\* lines 177-180, after the await
deleteBreakoutRooms_try(st, token, data) ==
    purgeBreakoutRoomsStore(processConversations(st, token, data), token)

deleteBreakoutRooms_then(i) ==
    /\ Awaiting(i, "deleteBreakoutRooms")
    /\ last' = i
    /\ \E data \in ParentResponses(calls[i].token) :
        /\ Commit(deleteBreakoutRooms_try(Store, calls[i].token, data))
        /\ calls' = [calls EXCEPT ![i] = Settle(Received(@, "ok", data))]

\* mutant: the purge runs whether or not the request succeeded
deleteBreakoutRooms_catch_purging(i) ==
    /\ Awaiting(i, "deleteBreakoutRooms")
    /\ last' = i
    /\ calls' = [calls EXCEPT ![i] =
            Settle(showError(console_error(Received(@, "failed", NoData)),
                             "An error occurred while deleting breakout rooms"))]
    /\ Commit(purgeBreakoutRoomsStore(Store, calls[i].token))

deleteBreakoutRooms_catch(i) ==
    /\ Awaiting(i, "deleteBreakoutRooms")
    /\ last' = i
    /\ calls' = [calls EXCEPT ![i] =
            Settle(showError(console_error(Received(@, "failed", NoData)),
                             "An error occurred while deleting breakout rooms"))]
    /\ NoDispatch

----------------------------------------------------------------------------
(* getBreakoutRooms *)

\* mutant: the response is dropped when nothing is stored under the token
getBreakoutRooms_then_ifStored(i) ==
    /\ Awaiting(i, "getBreakoutRooms")
    /\ last' = i
    /\ \E data \in ListResponses(calls[i].token) :
        /\ IF calls[i].token \in DOMAIN rooms
           THEN Commit(processConversations(Store, calls[i].token, data))
           ELSE NoDispatch
        /\ calls' = [calls EXCEPT ![i] = Settle(Received(@, "ok", data))]

getBreakoutRooms_then(i) ==
    /\ Awaiting(i, "getBreakoutRooms")
    /\ last' = i
    /\ \E data \in ListResponses(calls[i].token) :
        /\ Commit(processConversations(Store, calls[i].token, data))
        /\ calls' = [calls EXCEPT ![i] = Settle(Received(@, "ok", data))]

getBreakoutRooms_catch(i) ==
    /\ Awaiting(i, "getBreakoutRooms")
    /\ last' = i
    /\ calls' = [calls EXCEPT ![i] =
            Settle(console_error(Received(@, "failed", NoData)))]
    /\ NoDispatch

----------------------------------------------------------------------------
(* startBreakoutRooms, stopBreakoutRooms *)

startBreakoutRooms_then(i) ==
    /\ Awaiting(i, "startBreakoutRooms")
    /\ last' = i
    /\ \E data \in ListResponses(calls[i].token) :
        /\ Commit(processConversations(Store, calls[i].token, data))
        /\ calls' = [calls EXCEPT ![i] = Settle(Received(@, "ok", data))]

\* mutant: the failure is logged but no toast is shown
startBreakoutRooms_catch_silent(i) ==
    /\ Awaiting(i, "startBreakoutRooms")
    /\ last' = i
    /\ calls' = [calls EXCEPT ![i] =
            Settle(console_error(Received(@, "failed", NoData)))]
    /\ NoDispatch

startBreakoutRooms_catch(i) ==
    /\ Awaiting(i, "startBreakoutRooms")
    /\ last' = i
    /\ calls' = [calls EXCEPT ![i] =
            Settle(showError(console_error(Received(@, "failed", NoData)),
                             "An error occurred while starting breakout rooms"))]
    /\ NoDispatch

stopBreakoutRooms_then(i) ==
    /\ Awaiting(i, "stopBreakoutRooms")
    /\ last' = i
    /\ \E data \in ListResponses(calls[i].token) :
        /\ Commit(processConversations(Store, calls[i].token, data))
        /\ calls' = [calls EXCEPT ![i] = Settle(Received(@, "ok", data))]

\* mutant: no try/catch, the rejection of the request reaches the caller
stopBreakoutRooms_catch_uncaught(i) ==
    /\ Awaiting(i, "stopBreakoutRooms")
    /\ last' = i
    /\ calls' = [calls EXCEPT ![i] =
            [Received(@, "failed", NoData) EXCEPT !.pc = "rejected"]]
    /\ NoDispatch

stopBreakoutRooms_catch(i) ==
    /\ Awaiting(i, "stopBreakoutRooms")
    /\ last' = i
    /\ calls' = [calls EXCEPT ![i] =
            Settle(showError(console_error(Received(@, "failed", NoData)),
                             "An error occurred while stopping breakout rooms"))]
    /\ NoDispatch

----------------------------------------------------------------------------
(* broadcastMessageToBreakoutRooms *)

broadcastMessageToBreakoutRooms_then(i) ==
    /\ Awaiting(i, "broadcastMessageToBreakoutRooms")
    /\ last' = i
    /\ calls' = [calls EXCEPT ![i] = Settle(Received(@, "ok", NoData))]
    /\ NoDispatch

broadcastMessageToBreakoutRooms_catch(i) ==
    /\ Awaiting(i, "broadcastMessageToBreakoutRooms")
    /\ last' = i
    /\ calls' = [calls EXCEPT ![i] =
            Settle(showError(console_error(Received(@, "failed", NoData)),
                "An error occurred while sending a message to the breakout rooms"))]
    /\ NoDispatch

----------------------------------------------------------------------------
(* fetchBreakoutRoomsParticipants, invoked on its own *)

fetchBreakoutRoomsParticipants_then(i) ==
    /\ Awaiting(i, "fetchBreakoutRoomsParticipants")
    /\ last' = i
    /\ \E data \in ParticipantResponses(calls[i].token) :
        Commit(splitParticipants(Store, data))
    /\ calls' = [calls EXCEPT ![i] = Settle(Received(@, "ok", NoData))]

fetchBreakoutRoomsParticipants_catch(i) ==
    /\ Awaiting(i, "fetchBreakoutRoomsParticipants")
    /\ last' = i
    /\ calls' = [calls EXCEPT ![i] =
            Settle(console_error(Received(@, "failed", NoData)))]
    /\ NoDispatch

----------------------------------------------------------------------------
(* requestAssistance, dismissRequestAssistance: token is a breakout room *)

\* mutant: the room is filed under the token the action was given
requestAssistance_then_underOwnToken(i) ==
    /\ Awaiting(i, "requestAssistance")
    /\ last' = i
    /\ \E data \in RoomResponses(calls[i].token) :
        /\ Commit(processConversations(Store, calls[i].token, data))
        /\ calls' = [calls EXCEPT ![i] = Settle(Received(@, "ok", data))]

requestAssistance_then(i) ==
    /\ Awaiting(i, "requestAssistance")
    /\ last' = i
    /\ \E data \in RoomResponses(calls[i].token) :
        LET parentToken == data.item.objectId IN
        /\ Commit(processConversations(Store, parentToken, data))
        /\ calls' = [calls EXCEPT ![i] = Settle(Received(@, "ok", data))]

requestAssistance_catch(i) ==
    /\ Awaiting(i, "requestAssistance")
    /\ last' = i
    /\ calls' = [calls EXCEPT ![i] =
            Settle(showError(console_error(Received(@, "failed", NoData)),
                             "An error occurred while requesting assistance"))]
    /\ NoDispatch

\* mutant: the room is filed under the token the action was given
dismissRequestAssistance_then_underOwnToken(i) ==
    /\ Awaiting(i, "dismissRequestAssistance")
    /\ last' = i
    /\ \E data \in RoomResponses(calls[i].token) :
        /\ Commit(processConversations(Store, calls[i].token, data))
        /\ calls' = [calls EXCEPT ![i] = Settle(Received(@, "ok", data))]

dismissRequestAssistance_then(i) ==
    /\ Awaiting(i, "dismissRequestAssistance")
    /\ last' = i
    /\ \E data \in RoomResponses(calls[i].token) :
        LET parentToken == data.item.objectId IN
        /\ Commit(processConversations(Store, parentToken, data))
        /\ calls' = [calls EXCEPT ![i] = Settle(Received(@, "ok", data))]

dismissRequestAssistance_catch(i) ==
    /\ Awaiting(i, "dismissRequestAssistance")
    /\ last' = i
    /\ calls' = [calls EXCEPT ![i] =
            Settle(showError(console_error(Received(@, "failed", NoData)),
                "An error occurred while resetting the request for assistance"))]
    /\ NoDispatch

----------------------------------------------------------------------------
(* switchToBreakoutRoom: the server answers with the target room, and only  *)
(* when the target is a breakout room of the parent                        *)

switchToBreakoutRoom_then(i) ==
    /\ Awaiting(i, "switchToBreakoutRoom")
    /\ last' = i
    /\ ParentOf[calls[i].target] = calls[i].token
    /\ \E data \in RoomResponses(calls[i].target) :
        /\ Commit(processConversations(Store, calls[i].token, data))
        /\ calls' = [calls EXCEPT ![i] = Settle(Received(@, "ok", data))]

switchToBreakoutRoom_catch(i) ==
    /\ Awaiting(i, "switchToBreakoutRoom")
    /\ last' = i
    /\ calls' = [calls EXCEPT ![i] =
            Settle(showError(console_error(Received(@, "failed", NoData)),
                             "An error occurred while joining breakout room"))]
    /\ NoDispatch

----------------------------------------------------------------------------
Init ==
    /\ rooms = EmptyObject
    /\ conversations = EmptyObject
    /\ calls = <<>>
    /\ out = <<>>
    /\ last = 0

Slots == 1..MaxCalls

Next ==
    \/ \E op \in Ops, token \in Tokens, target \in RoomTokens \cup {""} :
            Invoke(op, token, target)
    \/ \E i \in Slots : configureBreakoutRooms_then(i)
    \/ \E i \in Slots : configureBreakoutRooms_participants_then(i)
    \/ \E i \in Slots : configureBreakoutRooms_participants_catch(i)
    \/ \E i \in Slots : configureBreakoutRooms_catch(i)
    \/ \E i \in Slots : reorganizeAttendees_then(i)
    \/ \E i \in Slots : reorganizeAttendees_participants_then(i)
    \/ \E i \in Slots : reorganizeAttendees_participants_catch(i)
    \/ \E i \in Slots : reorganizeAttendees_catch(i)
    \/ \E i \in Slots : deleteBreakoutRooms_then(i)
    \/ \E i \in Slots : deleteBreakoutRooms_catch(i)
    \/ \E i \in Slots : getBreakoutRooms_then(i)
    \/ \E i \in Slots : getBreakoutRooms_catch(i)
    \/ \E i \in Slots : startBreakoutRooms_then(i)
    \/ \E i \in Slots : startBreakoutRooms_catch(i)
    \/ \E i \in Slots : stopBreakoutRooms_then(i)
    \/ \E i \in Slots : stopBreakoutRooms_catch(i)
    \/ \E i \in Slots : broadcastMessageToBreakoutRooms_then(i)
    \/ \E i \in Slots : broadcastMessageToBreakoutRooms_catch(i)
    \/ \E i \in Slots : fetchBreakoutRoomsParticipants_then(i)
    \/ \E i \in Slots : fetchBreakoutRoomsParticipants_catch(i)
    \/ \E i \in Slots : requestAssistance_then(i)
    \/ \E i \in Slots : requestAssistance_catch(i)
    \/ \E i \in Slots : dismissRequestAssistance_then(i)
    \/ \E i \in Slots : dismissRequestAssistance_catch(i)
    \/ \E i \in Slots : switchToBreakoutRoom_then(i)
    \/ \E i \in Slots : switchToBreakoutRoom_catch(i)

Spec == Init /\ [][Next]_vars

----------------------------------------------------------------------------
(* Vocabulary of the properties *)

\* the conversations of a response, as processConversations reads them
ConversationsOf(data) ==
    IF data.kind = "array" THEN data.items
    ELSE IF data.kind = "single" THEN <<data.item>>
    ELSE <<>>

\* the breakout-room-type conversations of a response
BreakoutRoomsIn(data) ==
    {c \in {ConversationsOf(data)[k] : k \in DOMAIN ConversationsOf(data)} :
        c.objectType = BREAKOUT_ROOM}
BreakoutTokensIn(data) == {c.token : c \in BreakoutRoomsIn(data)}

\* the actions whose response is handed to processConversations
MergeOps == Ops \ {"broadcastMessageToBreakoutRooms", "fetchBreakoutRoomsParticipants"}
\* the six actions that merge under the parent token they were given
SyncOps == {"getBreakoutRooms", "configureBreakoutRooms", "reorganizeAttendees",
            "startBreakoutRooms", "stopBreakoutRooms", "switchToBreakoutRoom"}

\* the parent token under which invocation c merges its response
MergeToken(c) == IF c.op \in RoomOps THEN c.data.item.objectId ELSE c.token

\* this step is the continuation of invocation i after its own request succeeded
Succeeds(i) ==
    /\ i \in DOMAIN calls
    /\ calls[i].result = "pending"
    /\ calls'[i].result = "ok"
\* this step is the continuation of invocation i after its own request failed
Fails(i) ==
    /\ i \in DOMAIN calls
    /\ calls[i].result = "pending"
    /\ calls'[i].result = "failed"

\* the last step was the continuation of invocation i after its own request succeeded
JustSucceeded(i) ==
    /\ i \in DOMAIN calls
    /\ last = i
    /\ calls[i].result = "ok"
    /\ calls[i].nested \in {"none", "pending"}
\* the last step completed invocation i
JustCompleted(i) ==
    /\ i \in DOMAIN calls
    /\ last = i
    /\ calls[i].pc = "resolved"

----------------------------------------------------------------------------
(* C1 *)

\* C1 as stated: once configureBreakoutRooms(T) has completed after a successful
\* response with N breakout-room conversations, breakoutRooms(T) has exactly N
\* entries, whatever the store held before (here even with no other response
\* arriving between the configure response and the completion).
C1_AsStated ==
    \A i \in DOMAIN calls :
        (/\ JustCompleted(i)
         /\ calls[i].op = "configureBreakoutRooms"
         /\ calls[i].result = "ok"
         /\ calls[i].arrived = Arrivals)
        => Cardinality(breakoutRooms(calls[i].token))
                = Cardinality(BreakoutRoomsIn(calls[i].data))

\* C1, amended: when the successful configureBreakoutRooms(T) response with N
\* breakout-room conversations is merged, breakoutRooms(T) has one entry for every
\* room token that was stored under T before or is in the response (the rooms
\* stored before are kept), so it has N entries exactly when every room stored
\* under T before is among the N returned ones.
C1_ConfigureMergesIntoStored ==
    [][\A i \in Slots :
        (Succeeds(i) /\ calls[i].op = "configureBreakoutRooms")
        => LET T == calls[i].token
               returned == BreakoutTokensIn(calls'[i].data)
           IN /\ Cardinality(breakoutRooms(T)') = Cardinality(StoredUnder(T) \cup returned)
              /\ (Cardinality(breakoutRooms(T)') = Cardinality(returned))
                    <=> (StoredUnder(T) \subseteq returned)]_vars

\* C1, witness: a configure response with one breakout room has just been merged
\* under a parent that already held another room: two entries.
C1_Witness ==
    \E i \in DOMAIN calls :
        /\ JustSucceeded(i)
        /\ calls[i].op = "configureBreakoutRooms"
        /\ Cardinality(BreakoutRoomsIn(calls[i].data)) = 1
        /\ Cardinality(breakoutRooms(calls[i].token)) = 2

----------------------------------------------------------------------------
(* C2 *)

\* C2: when deleteBreakoutRooms(T) has completed successfully, the breakout rooms
\* store has no entry under T, breakoutRooms(T) is empty, and no room token that
\* was stored under T when the action was invoked is in the conversation store.
C2_DeletePurgesBothStores ==
    \A i \in DOMAIN calls :
        (/\ JustCompleted(i)
         /\ calls[i].op = "deleteBreakoutRooms"
         /\ calls[i].result = "ok")
        => /\ calls[i].token \notin DOMAIN rooms
           /\ breakoutRooms(calls[i].token) = {}
           /\ \A r \in calls[i].before : r \notin DOMAIN conversations

\* C2, witness: a successful deleteBreakoutRooms(T) has just completed, and rooms
\* were stored under T when it was invoked.
C2_Witness ==
    \E i \in DOMAIN calls :
        /\ JustCompleted(i)
        /\ calls[i].op = "deleteBreakoutRooms"
        /\ calls[i].result = "ok"
        /\ calls[i].before # {}
        /\ calls[i].token \in DOMAIN conversations

----------------------------------------------------------------------------
(* C3 *)

\* C3 as stated, for the five actions whose response is the room list of T: right
\* after the successful response has been processed, the room tokens stored under
\* T are exactly the breakout-room conversations of that response.
C3_AsStated ==
    \A i \in DOMAIN calls :
        (JustSucceeded(i) /\ calls[i].op \in ListOps)
        => StoredUnder(calls[i].token) = BreakoutTokensIn(calls[i].data)

\* C3, amended: processing a successful response for T merges it into the mapping
\* of T: every breakout-room conversation of the response is stored under T as
\* returned, and every room stored under T before that is missing from the
\* response stays stored, unchanged; the room tokens under T are the union of the
\* ones stored before and the returned ones.
C3_ResponseIsMergedNotRebuilt ==
    [][\A i \in Slots :
        (Succeeds(i) /\ calls[i].op \in SyncOps)
        => LET T == calls[i].token
               returned == BreakoutRoomsIn(calls'[i].data)
           IN /\ StoredUnder(T)' = StoredUnder(T) \cup {c.token : c \in returned}
              /\ \A c \in returned : rooms'[T][c.token] = c
              /\ \A k \in StoredUnder(T) \ {c.token : c \in returned} :
                    rooms'[T][k] = rooms[T][k]]_vars

\* C3, witness: a getBreakoutRooms response has just been processed, and a room
\* that it does not contain is still stored under its parent token.
C3_Witness ==
    \E i \in DOMAIN calls :
        /\ JustSucceeded(i)
        /\ calls[i].op = "getBreakoutRooms"
        /\ BreakoutTokensIn(calls[i].data) # {}
        /\ StoredUnder(calls[i].token) \ BreakoutTokensIn(calls[i].data) # {}

----------------------------------------------------------------------------
(* C4 *)

----------------------------------------------------------------------------
(* C5 *)

\* what the step wrote into the breakout rooms store: <<parent, key>> pairs
Written ==
    {pk \in Tokens \X Tokens :
        /\ pk[1] \in DOMAIN rooms'
        /\ pk[2] \in DOMAIN rooms'[pk[1]]
        /\ \/ pk[1] \notin DOMAIN rooms
           \/ pk[2] \notin DOMAIN rooms[pk[1]]
           \/ rooms'[pk[1]][pk[2]] # rooms[pk[1]][pk[2]]}

PatchEvents(o) == {k \in DOMAIN o : o[k].type = "patchConversations"}

\* C5: each successful response handed to processConversations(T, response) puts
\* every returned breakout-room conversation under T, writes nothing else into the
\* breakout rooms store (no conversation of another type, nothing under another
\* parent), and forwards all returned conversations in one patchConversations
\* dispatch, the first dispatch of the continuation.
C5_ProcessConversationsFiltersByType ==
    [][\A i \in Slots :
        (Succeeds(i) /\ calls[i].op \in MergeOps)
        => LET T == MergeToken(calls'[i])
               all == ConversationsOf(calls'[i].data)
               returned == BreakoutRoomsIn(calls'[i].data)
           IN /\ calls[i].op # "deleteBreakoutRooms"
                    => \A c \in returned : /\ T \in DOMAIN rooms'
                                          /\ c.token \in DOMAIN rooms'[T]
                                          /\ rooms'[T][c.token] = c
              /\ Written \subseteq {<<T, c.token>> : c \in returned}
              /\ \A p \in DOMAIN rooms' : \A k \in DOMAIN rooms'[p] :
                    rooms'[p][k].objectType = BREAKOUT_ROOM
              /\ PatchEvents(out') = {1}
              /\ out'[1].items = all]_vars

\* C5, witness: a response with the parent conversation and two breakout rooms has
\* just been processed; the rooms are under the parent token, the parent is not.
C5_Witness ==
    \E i \in DOMAIN calls :
        /\ JustSucceeded(i)
        /\ calls[i].op = "startBreakoutRooms"
        /\ Len(ConversationsOf(calls[i].data)) = 3
        /\ StoredUnder(calls[i].token) = BreakoutTokensIn(calls[i].data)
        /\ calls[i].token \notin StoredUnder(calls[i].token)
        /\ Len(out) = 1
        /\ out[1].type = "patchConversations"
        /\ Len(out[1].items) = 3

----------------------------------------------------------------------------
(* C6 *)

SilentOps == {"getBreakoutRooms", "fetchBreakoutRoomsParticipants"}

----------------------------------------------------------------------------
(* C7 *)

\* C7: no invocation's promise rejects, and an invocation whose requests have all
\* been answered, successfully or not, has resolved.
C7_NeverRejects ==
    \A i \in DOMAIN calls :
        /\ calls[i].pc # "rejected"
        /\ (calls[i].result # "pending" /\ calls[i].nested # "pending")
            => calls[i].pc = "resolved"

\* C7, witness: one invocation whose request failed and one whose request
\* succeeded have both resolved.
C7_Witness ==
    \E i \in DOMAIN calls, j \in DOMAIN calls :
        /\ calls[i].result = "failed" /\ calls[i].pc = "resolved"
        /\ calls[i].op = "stopBreakoutRooms"
        /\ calls[j].result = "ok" /\ calls[j].pc = "resolved"
        /\ calls[j].op = "stopBreakoutRooms"

----------------------------------------------------------------------------
(* C8 *)

\* the participants request nested in invocation i fails in this step
NestedFails(i) ==
    /\ i \in DOMAIN calls
    /\ calls[i].nested = "pending"
    /\ calls'[i].nested = "failed"

\* C8: the continuation that handles a failed request issues no request and
\* changes neither store; the invocation ends there.
C8_FailureChangesNothing ==
    [][\A i \in Slots :
        (Fails(i) \/ NestedFails(i))
        => /\ rooms' = rooms
           /\ conversations' = conversations
           /\ calls'[i].reqs = calls[i].reqs
           /\ Len(calls') = Len(calls)
           /\ calls'[i].pc = "resolved"
           /\ \A k \in DOMAIN out' : out'[k].type \in {"spreed:select-active-sidebar-tab",
                                                       "showSidebar"}]_vars

\* C8, witness: deleteBreakoutRooms(T) has just failed and the rooms under T are
\* still in both stores.
C8_Witness ==
    \E i \in DOMAIN calls :
        /\ JustCompleted(i)
        /\ calls[i].op = "deleteBreakoutRooms"
        /\ calls[i].result = "failed"
        /\ calls[i].reqs = 1
        /\ StoredUnder(calls[i].token) # {}
        /\ StoredUnder(calls[i].token) \subseteq DOMAIN conversations

----------------------------------------------------------------------------
(* C9 *)

\* the successful response of invocation i was merged under T and carries room r
Carries(i, T, r) ==
    /\ calls[i].result = "ok"
    /\ calls[i].op \in MergeOps
    /\ MergeToken(calls[i]) = T
    /\ r \in BreakoutTokensIn(calls[i].data)
VersionIn(i, r) == CHOOSE c \in BreakoutRoomsIn(calls[i].data) : c.token = r

\* a successful deleteBreakoutRooms(T) response arrived after the response of i
PurgedSince(i, T) ==
    \E d \in DOMAIN calls :
        /\ calls[d].op = "deleteBreakoutRooms"
        /\ calls[d].token = T
        /\ calls[d].result = "ok"
        /\ calls[d].arrived > calls[i].arrived

\* C9: when the responses of two invocations for the same parent T both carry
\* breakout room r, then rooms[T][r] and the conversation store hold the version
\* of the response that arrived last (as long as no later response carried r or
\* purged T), whichever of the two was invoked first.
C9_LastResponseWins ==
    \A T \in ParentTokens, r \in RoomTokens :
        \A i \in DOMAIN calls, j \in DOMAIN calls :
            (/\ i # j
             /\ Carries(i, T, r) /\ Carries(j, T, r)
             /\ calls[i].arrived > calls[j].arrived
             /\ \A k \in DOMAIN calls :
                    Carries(k, T, r) => calls[k].arrived <= calls[i].arrived
             /\ ~PurgedSince(i, T))
            => /\ T \in DOMAIN rooms /\ r \in DOMAIN rooms[T]
               /\ rooms[T][r] = VersionIn(i, r)
               /\ r \in DOMAIN conversations
               /\ conversations[r] = VersionIn(i, r)

\* C9, witness: of two overlapping invocations for T the one invoked first was
\* answered last, with another version of the room, and its version is stored.
C9_Witness ==
    \E T \in ParentTokens, r \in RoomTokens :
        \E i \in DOMAIN calls, j \in DOMAIN calls :
            /\ i < j
            /\ Carries(i, T, r) /\ Carries(j, T, r)
            /\ calls[i].arrived > calls[j].arrived
            /\ calls[i].pc = "resolved" /\ calls[j].pc = "resolved"
            /\ VersionIn(i, r) # VersionIn(j, r)
            /\ rooms[T][r] = VersionIn(i, r)
            /\ conversations[r] = VersionIn(i, r)

----------------------------------------------------------------------------
(* C10 *)

\* getBreakoutRooms(T), invocation g, was invoked before deleteBreakoutRooms(T),
\* invocation d, which completed successfully before the response of g arrived
FetchOvertakenByDelete(g, d) ==
    /\ g \in DOMAIN calls /\ d \in DOMAIN calls
    /\ g < d
    /\ calls[g].op = "getBreakoutRooms"
    /\ calls[d].op = "deleteBreakoutRooms"
    /\ calls[d].token = calls[g].token
    /\ calls[g].result = "ok" /\ calls[d].result = "ok"
    /\ calls[d].arrived < calls[g].arrived

\* C10: nothing holds back or drops the response of a getBreakoutRooms(T) that
\* was overtaken by a completed deleteBreakoutRooms(T): when it is processed,
\* every room it carries is stored under T and in the conversation store.
C10_OvertakenFetchIsMerged ==
    \A g \in DOMAIN calls, d \in DOMAIN calls :
        (FetchOvertakenByDelete(g, d) /\ JustSucceeded(g))
        => \A c \in BreakoutRoomsIn(calls[g].data) :
                /\ calls[g].token \in DOMAIN rooms
                /\ c.token \in DOMAIN rooms[calls[g].token]
                /\ rooms[calls[g].token][c.token] = c
                /\ c.token \in DOMAIN conversations
                /\ conversations[c.token] = c

\* C10, witness: the fetch was invoked, the delete was invoked and completed,
\* then the fetch response was merged; both have finished and rooms are stored
\* under T and in the conversation store.
C10_Witness ==
    \E g \in DOMAIN calls, d \in DOMAIN calls :
        /\ FetchOvertakenByDelete(g, d)
        /\ calls[g].pc = "resolved" /\ calls[d].pc = "resolved"
        /\ \A k \in DOMAIN calls : calls[k].pc = "resolved"
        /\ BreakoutRoomsIn(calls[g].data) # {}
        /\ StoredUnder(calls[g].token) = BreakoutTokensIn(calls[g].data)
        /\ BreakoutTokensIn(calls[g].data) \subseteq DOMAIN conversations

----------------------------------------------------------------------------
(* C11 *)

SidebarTypes == {"spreed:select-active-sidebar-tab", "showSidebar"}
\* the positions of the sidebar events among the events o
SidebarEvents(o) == {k \in DOMAIN o : o[k].type \in SidebarTypes}
\* the last two events of o are the tab selection and then showSidebar, and o
\* holds no other sidebar event
EndsWithSidebar(o) ==
    /\ Len(o) >= 2
    /\ o[Len(o) - 1] = Event("spreed:select-active-sidebar-tab", "breakout-rooms", <<>>)
    /\ o[Len(o)] = Event("showSidebar", "", <<>>)
    /\ SidebarEvents(o) = {Len(o) - 1, Len(o)}

\* this step ends the await of invocation i's nested participants request
NestedFinishes(i) ==
    /\ i \in DOMAIN calls
    /\ calls[i].pc = "participants"
    /\ calls'[i].pc # "participants"

\* C11: in configureBreakoutRooms the tab-selection event and the showSidebar
\* dispatch happen if and only if the configure request succeeded, and only in
\* the continuation that ends the nested participants fetch, which is issued
\* in the continuation that merged the configure response into both stores.
\* A failure of the nested fetch still opens the sidebar, is logged and shows
\* no toast.  A failure of the configure request opens nothing and the
\* participants request is never issued.
C11_Step ==
    /\ SidebarEvents(out') # {} =>
            \E i \in DOMAIN calls :
                /\ last' = i
                /\ calls[i].op = "configureBreakoutRooms"
                /\ calls[i].result = "ok"
                /\ NestedFinishes(i)
    /\ \A i \in DOMAIN calls : calls[i].op = "configureBreakoutRooms" =>
        /\ Succeeds(i) =>
                /\ PatchEvents(out') = {1}
                /\ out'[1].items = ConversationsOf(calls'[i].data)
                /\ \A c \in BreakoutRoomsIn(calls'[i].data) :
                        /\ rooms'[calls[i].token][c.token] = c
                        /\ conversations'[c.token] = c
                /\ SidebarEvents(out') = {}
                /\ calls'[i].nested = "pending"
                /\ calls'[i].reqs = 2
        /\ NestedFinishes(i) =>
                /\ calls[i].result = "ok"
                /\ calls'[i].pc = "resolved"
                /\ calls'[i].nested \in {"ok", "failed"}
                /\ EndsWithSidebar(out')
                /\ calls'[i].toast = ""
                /\ calls'[i].nested = "failed" =>
                        /\ out' = <<Event("spreed:select-active-sidebar-tab", "breakout-rooms", <<>>),
                                    Event("showSidebar", "", <<>>)>>
                        /\ calls'[i].errors = 1
        /\ Fails(i) =>
                /\ out' = <<>>
                /\ calls'[i].pc = "resolved"
                /\ calls'[i].reqs = 1
                /\ calls'[i].nested = "none"
        /\ calls[i].result = "failed" =>
                /\ calls'[i].reqs = 1
                /\ calls'[i].nested = "none"
C11_SidebarIffConfigureSucceeded == [][C11_Step]_vars

\* a configureBreakoutRooms whose nested participants fetch failed has just
\* completed: the sidebar was opened, the failure logged, no toast shown
C11_Witness ==
    \E i \in DOMAIN calls :
        /\ JustCompleted(i)
        /\ calls[i].op = "configureBreakoutRooms"
        /\ calls[i].result = "ok"
        /\ calls[i].nested = "failed"
        /\ calls[i].toast = ""
        /\ EndsWithSidebar(out)
        /\ BreakoutRoomsIn(calls[i].data) # {}
        /\ \E j \in DOMAIN calls :
                calls[j].op = "configureBreakoutRooms" /\ calls[j].result = "failed"

----------------------------------------------------------------------------
(* C12 *)

\* the events of o are one patchConversations followed by deleteConversation only
PatchThenDeletes(o) ==
    /\ Len(o) >= 1
    /\ o[1].type = "patchConversations"
    /\ \A k \in 2..Len(o) : o[k].type = "deleteConversation"

\* the store st holds the room token r in neither store
AbsentFromBoth(st, r) ==
    /\ r \notin DOMAIN st.conversations
    /\ \A p \in DOMAIN st.rooms : r \notin DOMAIN st.rooms[p]

\* lines 177-180 applied to the current stores and the response data: the
\* conversations are patched before the purge, the first conversation (the
\* parent) stays in the conversation store as returned, and the returned
\* breakout rooms are in neither store
DeleteOutcome(token, data) ==
    LET st == deleteBreakoutRooms_try(Store, token, data)
    IN  /\ PatchThenDeletes(st.out)
        /\ st.out[1].items = ConversationsOf(data)
        /\ token \in DOMAIN st.conversations
        /\ st.conversations[token] = ConversationsOf(data)[1]
        /\ token \notin DOMAIN st.rooms
        /\ \A c \in BreakoutRoomsIn(data) : AbsentFromBoth(st, c.token)

\* C12: a successful deleteBreakoutRooms(T) patches the returned conversations
\* into the conversation store before the purge runs; afterwards the returned
\* parent conversation is in the conversation store as returned, and every
\* breakout-room conversation of a delete response is in neither store.  The
\* second conjunct applies the code to responses that carry breakout rooms too.
C12_PatchedBeforePurge ==
    /\ \A i \in DOMAIN calls :
            (JustCompleted(i) /\ calls[i].op = "deleteBreakoutRooms"
                              /\ calls[i].result = "ok") =>
                /\ PatchThenDeletes(out)
                /\ out[1].items = ConversationsOf(calls[i].data)
                /\ calls[i].token \in DOMAIN conversations
                /\ conversations[calls[i].token] = calls[i].data.item
                /\ \A c \in BreakoutRoomsIn(calls[i].data) : AbsentFromBoth(Store, c.token)
    /\ \A t \in ParentTokens :
            \A data \in ListResponses(t) \cup ParentResponses(t) : DeleteOutcome(t, data)

\* a deleteBreakoutRooms has just succeeded for a parent with stored rooms whose
\* conversation was in the conversation store in another version: the parent
\* conversation is the returned one and the purge followed the patch
C12_Witness ==
    \E i \in DOMAIN calls :
        /\ JustCompleted(i)
        /\ calls[i].op = "deleteBreakoutRooms"
        /\ calls[i].result = "ok"
        /\ Len(out) >= 2
        /\ out[2].type = "deleteConversation"
        /\ conversations[calls[i].token] = calls[i].data.item
        /\ \E j \in DOMAIN calls :
                /\ j # i
                /\ calls[j].token = calls[i].token
                /\ calls[j].op \in ListOps
                /\ calls[j].result = "ok"
                /\ ConversationsOf(calls[j].data)[1] # calls[i].data.item

----------------------------------------------------------------------------
(* C13 *)

\* C13: a successful requestAssistance(R) or dismissRequestAssistance(R) stores
\* the returned room under the objectId of the response and not under R: the
\* only top-level key the step can add is that objectId, R is not a top-level
\* key afterwards, and getParentRoomToken(R) is then that objectId.
C13_Step ==
    \A i \in DOMAIN calls : (Succeeds(i) /\ calls[i].op \in RoomOps) =>
        LET R == calls[i].token
            parentToken == calls'[i].data.item.objectId
        IN  /\ parentToken # R
            /\ DOMAIN rooms' = DOMAIN rooms \cup {parentToken}
            /\ R \notin DOMAIN rooms'
            /\ R \in DOMAIN rooms'[parentToken]
            /\ rooms'[parentToken][R] = calls'[i].data.item
            /\ getParentRoomToken(R)' = parentToken
C13_AssistanceStoresUnderObjectId == [][C13_Step]_vars

\* a dismissRequestAssistance(R) has just succeeded while nothing was stored
\* for R's parent before: the parent entry was created by it and holds R
C13_Witness ==
    \E i \in DOMAIN calls :
        /\ JustSucceeded(i)
        /\ calls[i].op = "dismissRequestAssistance"
        /\ getParentRoomToken(calls[i].token) = calls[i].data.item.objectId
        /\ DOMAIN rooms = {calls[i].data.item.objectId}
        /\ DOMAIN rooms[calls[i].data.item.objectId] = {calls[i].token}
        /\ \A j \in DOMAIN calls : j # i => calls[j].result # "ok"

----------------------------------------------------------------------------
(* C14 *)

\* the participants of the response data whose roomToken is r, in response order
WithRoomToken(data, r) == SelectSeq(data, LAMBDA p : p.roomToken = r)
RoomTokensIn(data) == {data[k].roomToken : k \in DOMAIN data}

\* the events o are the split of the response data: patchParticipants only,
\* exactly one per distinct roomToken, carrying the participants with that
\* roomToken in response order, every participant in exactly one place
IsSplitOf(o, data) ==
    /\ \A e \in DOMAIN o : o[e].type = "patchParticipants"
    /\ \A r \in RoomTokensIn(data) :
            \E e \in DOMAIN o :
                /\ o[e].token = r
                /\ o[e].items = WithRoomToken(data, r)
                /\ \A f \in DOMAIN o : o[f].token = r => f = e
    /\ \A e \in DOMAIN o : o[e].token \in RoomTokensIn(data)
    /\ \A k \in DOMAIN data :
            Cardinality({x \in (DOMAIN o) \X (1..Len(data)) :
                            /\ x[2] \in DOMAIN o[x[1]].items
                            /\ o[x[1]].items[x[2]] = data[k]}) = 1

\* the events of o that are not the sidebar events of configureBreakoutRooms
WithoutSidebar(o) == SelectSeq(o, LAMBDA e : e.type \notin SidebarTypes)

\* this step is the continuation of invocation i after a participants request,
\* its own or the nested one of configure and reorganize, succeeded
ParticipantsArrive(i) ==
    /\ i \in DOMAIN calls
    /\ \/ Succeeds(i) /\ calls[i].op = "fetchBreakoutRoomsParticipants"
       \/ NestedFinishes(i) /\ calls'[i].nested = "ok"

\* C14: a successful fetchBreakoutRoomsParticipants(T) dispatches exactly one
\* patchParticipants per distinct roomToken of the response, each with the
\* participants of that roomToken in response order, so every participant is
\* dispatched exactly once; the breakout-rooms store is never modified.  The
\* response of a step is the one whose split by lines 254-265 gives the events
\* of the step (attendee ids make it unique).
C14_Step ==
    \A i \in DOMAIN calls :
        /\ ParticipantsArrive(i) =>
                /\ \E data \in ParticipantResponses(calls[i].token) :
                        /\ WithoutSidebar(out') = splitParticipants(Store, data).out
                        /\ IsSplitOf(WithoutSidebar(out'), data)
                /\ rooms' = rooms
        /\ (Fails(i) /\ calls[i].op = "fetchBreakoutRoomsParticipants") =>
                /\ out' = <<>>
                /\ rooms' = rooms
C14_ParticipantsSplitByRoomToken == [][C14_Step]_vars

\* a fetchBreakoutRoomsParticipants has just succeeded with a response in which
\* the participants of one room are not adjacent: two dispatches, the first
\* with the first and third participant
C14_Witness ==
    \E i \in DOMAIN calls :
        /\ JustCompleted(i)
        /\ calls[i].op = "fetchBreakoutRoomsParticipants"
        /\ calls[i].result = "ok"
        /\ Len(out) = 2
        /\ out[1].type = "patchParticipants"
        /\ out[1].token # out[2].token
        /\ Len(out[1].items) = 2
        /\ out[1].items[1].attendeeId = 1
        /\ out[1].items[2].attendeeId = 3
        /\ out[2].items[1].attendeeId = 2

----------------------------------------------------------------------------
(* C15 *)

\* this step is a continuation of invocation i
StepOf(i) == i \in DOMAIN calls /\ calls'[i] # calls[i]

\* the parent token for which invocation i acts: the token it was given, or for
\* the assistance actions the objectId of the response
ActsFor(i) ==
    IF calls[i].op \in RoomOps /\ calls'[i].result = "ok"
    THEN calls'[i].data.item.objectId
    ELSE calls[i].token

\* the rooms object r1 has the same entry as r0 for every parent token except t
SameExceptFor(r0, r1, t) ==
    \A p \in (DOMAIN r0 \cup DOMAIN r1) \ {t} :
        /\ p \in DOMAIN r0
        /\ p \in DOMAIN r1
        /\ r1[p] = r0[p]

\* C15: every continuation of an action invoked for the parent token T leaves
\* the entry of every other parent token unchanged, as does
\* purgeBreakoutRoomsStore(T) applied to the current store; invoking an action
\* changes no store, and broadcastMessageToBreakoutRooms changes neither store
\* and dispatches nothing, whether its request succeeds or fails.
C15_Step ==
    /\ \A i \in DOMAIN calls : StepOf(i) =>
            /\ SameExceptFor(rooms, rooms', ActsFor(i))
            /\ calls[i].op = "broadcastMessageToBreakoutRooms" =>
                    /\ rooms' = rooms
                    /\ conversations' = conversations
                    /\ out' = <<>>
    /\ \A t \in ParentTokens :
            LET st == purgeBreakoutRoomsStore(Store, t)
            IN  /\ SameExceptFor(rooms, st.rooms, t)
                /\ t \notin DOMAIN st.rooms
    /\ Len(calls') > Len(calls) => rooms' = rooms /\ conversations' = conversations
C15_OtherParentsUntouched == [][C15_Step]_vars

\* a deleteBreakoutRooms(T) has just succeeded while rooms are stored under the
\* other parent token, which another action has merged there
C15_Witness ==
    \E i \in DOMAIN calls :
        /\ JustCompleted(i)
        /\ calls[i].op = "deleteBreakoutRooms"
        /\ calls[i].result = "ok"
        /\ \E p \in DOMAIN rooms :
                /\ p # calls[i].token
                /\ Cardinality(DOMAIN rooms[p]) >= 1
                /\ \E j \in DOMAIN calls :
                        /\ calls[j].token = p
                        /\ calls[j].result = "ok"
                        /\ DOMAIN rooms[p] = BreakoutTokensIn(calls[j].data)

----------------------------------------------------------------------------
(* C16 *)

\* C16: every breakout room token stored in the breakout-rooms store is also
\* in the conversation store.
C16_StoredRoomsAreConversations ==
    \A p \in DOMAIN rooms : \A r \in DOMAIN rooms[p] : r \in DOMAIN conversations

\* a list response has just been merged under a parent after the response of
\* an overlapping successful deleteBreakoutRooms for the same parent: two rooms
\* are stored and both are in the conversation store
C16_Witness ==
    \E i \in DOMAIN calls :
        /\ JustSucceeded(i)
        /\ calls[i].op \in ListOps
        /\ calls[i].token \in DOMAIN rooms
        /\ Cardinality(DOMAIN rooms[calls[i].token]) = 2
        /\ DOMAIN rooms[calls[i].token] \subseteq DOMAIN conversations
        /\ \E j \in DOMAIN calls :
                /\ calls[j].op = "deleteBreakoutRooms"
                /\ calls[j].token = calls[i].token
                /\ calls[j].result = "ok"
                /\ calls[j].arrived < calls[i].arrived

----------------------------------------------------------------------------
(* C17 *)

\* C17: each entry rooms[T][K] is a conversation whose token is K and whose
\* objectType is the breakout-room type, and no parent token maps to an empty
\* room mapping.
C17_EntriesKeyedByOwnToken ==
    \A T \in DOMAIN rooms :
        /\ DOMAIN rooms[T] # {}
        /\ \A K \in DOMAIN rooms[T] :
                /\ rooms[T][K].token = K
                /\ rooms[T][K].objectType = BREAKOUT_ROOM

\* a deleteBreakoutRooms has just purged the rooms that were stored under its
\* parent: the parent has no entry left, rather than an empty one
C17_Witness ==
    \E i \in DOMAIN calls :
        /\ JustCompleted(i)
        /\ calls[i].op = "deleteBreakoutRooms"
        /\ \E k \in DOMAIN out : out[k].type = "deleteConversation"
        /\ calls[i].token \notin DOMAIN rooms

====
